---------------------------- MODULE Spec2Model ----------------------------
(***************************************************************************)
(* Seller-Scraper-Demo: the price normaliser (seller.clean_price), the     *)
(* keyword extractor and greedy matcher (app.get_keywords,                 *)
(* app.compare_products), the two scrapers (seller.scrape_amazon_seller,   *)
(* seller.scrape_flipkart_seller) and the /search handler (app.search).    *)
(*                                                                         *)
(* Python values are modelled as follows.                                  *)
(*   str      a sequence of characters; a character is a one-letter TLA+   *)
(*            string, or "U+xxxx" for a non-ASCII code point               *)
(*   price    a tagged value [t |-> "str", v |-> chars] or a non-string    *)
(*            such as None                                                 *)
(*   dict     a record; a missing key is a missing field                   *)
(*   float    a price is [inf |-> BOOLEAN, m |-> thousandths]; a           *)
(*            similarity is a fraction <<numerator, denominator>>          *)
(*   object   a listing of a list is referred to by its position           *)
(***************************************************************************)
EXTENDS Integers, Sequences, FiniteSets

---------------------------------------------------------------------------
(* Bounds of the model *)

\* longest price text given to clean_price on its own
MaxPriceLen == 3
\* longest listing collections given to compare_products on its own
MaxA == 2
MaxB == 2
\* most product cards on one scraped page
MaxCards == 2

---------------------------------------------------------------------------
(* Characters *)

UpperSeq == << "A","B","C","D","E","F","G","H","I","J","K","L","M",
               "N","O","P","Q","R","S","T","U","V","W","X","Y","Z" >>
LowerSeq == << "a","b","c","d","e","f","g","h","i","j","k","l","m",
               "n","o","p","q","r","s","t","u","v","w","x","y","z" >>
DigitSeq == << "0","1","2","3","4","5","6","7","8","9" >>

RangeOf(s) == { s[i] : i \in DOMAIN s }
AsciiUpper == RangeOf(UpperSeq)
AsciiLower == RangeOf(LowerSeq)
AsciiLetters == AsciiUpper \cup AsciiLower
Digits == RangeOf(DigitSeq)
Whitespace == { " " }
\* the rupee sign written in seller.py
Rupee == "U+20B9"

IndexIn(s, c) == CHOOSE i \in DOMAIN s : s[i] = c
DigitVal(c) == IndexIn(DigitSeq, c) - 1
DigitChar(n) == DigitSeq[n + 1]

\* str.lower(), one character
LowerChar(c) == IF c \in AsciiUpper THEN LowerSeq[IndexIn(UpperSeq, c)] ELSE c
\* the regular expression class \w
IsWordChar(c) == c \in AsciiLetters \cup Digits \cup { "_" }

RECURSIVE FilterOut(_, _)
FilterOut(s, drop) ==
    IF s = << >> THEN << >>
    ELSE IF Head(s) \in drop THEN FilterOut(Tail(s), drop)
         ELSE << Head(s) >> \o FilterOut(Tail(s), drop)

RECURSIVE LStrip(_)
LStrip(s) == IF s # << >> /\ Head(s) \in Whitespace THEN LStrip(Tail(s)) ELSE s
RECURSIVE RStrip(_)
RStrip(s) ==
    IF s # << >> /\ s[Len(s)] \in Whitespace THEN RStrip(SubSeq(s, 1, Len(s) - 1)) ELSE s
\* str.strip()
Strip(s) == RStrip(LStrip(s))

---------------------------------------------------------------------------
(* Prices: seller.clean_price *)

PyStr(chars) == [t |-> "str", v |-> chars]
PyNone == [t |-> "NoneType", v |-> << >>]
PyInt == [t |-> "int", v |-> << >>]
IsStr(x) == x.t = "str"
\* the sentinel "N/A"
NA == PyStr(<< "N", "/", "A" >>)

\* thousandths kept of a parsed number
Scale == 10 * 10 * 10
Inf == [inf |-> TRUE, m |-> 0]
Fin(m) == [inf |-> FALSE, m |-> m]

\* float(text): the scan of a decimal literal, text already stripped.
\* st is the scanner's state, n the digits read so far as an integer, fd the
\* number of fraction digits among them that are kept.
RECURSIVE FloatScan(_, _, _, _, _)
FloatScan(s, i, st, n, fd) ==
    IF i > Len(s) THEN
        IF st \in { "int", "point", "frac" } THEN [ok |-> TRUE, n |-> n, fd |-> fd]
        ELSE [ok |-> FALSE, n |-> 0, fd |-> 0]
    ELSE LET c == s[i] IN
        CASE c \in Digits /\ st \in { "start", "int", "int_" } ->
                FloatScan(s, i + 1, "int", 10 * n + DigitVal(c), fd)
          [] c \in Digits /\ st \in { "point", "point0", "frac", "frac_" } ->
                IF fd < 3 THEN FloatScan(s, i + 1, "frac", 10 * n + DigitVal(c), fd + 1)
                ELSE FloatScan(s, i + 1, "frac", n, fd)
          [] c = "_" /\ st = "int" -> FloatScan(s, i + 1, "int_", n, fd)
          [] c = "_" /\ st = "frac" -> FloatScan(s, i + 1, "frac_", n, fd)
          [] c = "." /\ st = "int" -> FloatScan(s, i + 1, "point", n, fd)
          [] c = "." /\ st = "start" -> FloatScan(s, i + 1, "point0", n, fd)
          [] OTHER -> [ok |-> FALSE, n |-> 0, fd |-> 0]

Pow10(k) == CASE k = 0 -> 1 [] k = 1 -> 10 [] k = 2 -> 100 [] OTHER -> 1000

\* float(text): [exc |-> "ValueError"] or the value in thousandths
PyFloat(s) ==
    LET neg == s # << >> /\ Head(s) = "-"
        body == IF s # << >> /\ Head(s) \in { "+", "-" } THEN Tail(s) ELSE s
        r == FloatScan(body, 1, "start", 0, 0)
        m == r.n * (Scale \div Pow10(r.fd))
    IN IF r.ok THEN [exc |-> "none", val |-> Fin(IF neg THEN 0 - m ELSE m)]
       ELSE [exc |-> "ValueError", val |-> Inf]

\* re.sub(r'[<rupee>,A-Za-z]', '', price_str)
PriceNoise == { Rupee, "," } \cup AsciiLetters
ReSubPrice(s) == FilterOut(s, PriceNoise)

\* clean_price without its isinstance test: re.sub raises TypeError on a non-string
CleanPriceUnguarded(price_str) ==
    IF price_str = NA THEN [exc |-> "none", val |-> Inf]
    ELSE IF ~IsStr(price_str) THEN [exc |-> "TypeError", val |-> Inf]
    ELSE LET r == PyFloat(Strip(ReSubPrice(price_str.v)))
         IN IF r.exc = "ValueError" THEN [exc |-> "none", val |-> Inf] ELSE r

\* clean_price(price_str): [exc |-> the exception that leaves it, val |-> the float]
CleanPrice(price_str) ==
    IF ~IsStr(price_str) \/ price_str = NA THEN [exc |-> "none", val |-> Inf]
    ELSE LET cleaned_price == Strip(ReSubPrice(price_str.v))
             r == PyFloat(cleaned_price)
         IN IF r.exc = "ValueError" THEN [exc |-> "none", val |-> Inf] ELSE r

---------------------------------------------------------------------------
(* Keywords and similarity: app.get_keywords and the Jaccard ratio *)

HasKey(d, k) == k \in DOMAIN d
\* dict.get(k, default)
Get(d, k, default) == IF k \in DOMAIN d THEN d[k] ELSE default

LowerStr(s) == [i \in DOMAIN s |-> LowerChar(s[i])]

\* re.findall(r'\b\w+\b', text): the maximal runs of word characters
RECURSIVE FindWords(_, _)
FindWords(s, cur) ==
    LET done == IF cur = << >> THEN {} ELSE { cur }
    IN IF s = << >> THEN done
       ELSE IF IsWordChar(Head(s)) THEN FindWords(Tail(s), Append(cur, Head(s)))
            ELSE done \cup FindWords(Tail(s), << >>)

\* get_keywords(name)
GetKeywords(name) == FindWords(LowerStr(name), << >>)

RECURSIVE Gcd(_, _)
Gcd(a, b) == IF b = 0 THEN a ELSE Gcd(b, a % b)
\* the quotient n / d in lowest terms: equal floats are equal fractions
Ratio(n, d) == << n \div Gcd(n, d), d \div Gcd(n, d) >>

\* similarity = intersection / union if union > 0 else 0, as a fraction
Similarity(amazon_keywords, flipkart_keywords) ==
    LET intersection == Cardinality(amazon_keywords \cap flipkart_keywords)
        union == Cardinality(amazon_keywords \cup flipkart_keywords)
    IN IF union > 0 THEN Ratio(intersection, union) ELSE << 0, 1 >>

\* x > y on fractions with positive denominators
FracGreater(x, y) == x[1] * y[2] > y[1] * x[2]
FracGreaterEq(x, y) == x[1] * y[2] >= y[1] * x[2]

\* the literal 0.2
Threshold == << 1, 5 >>
\* the literal 0.0
ZeroSim == << 0, 1 >>
\* best_match = None
None == 0

\* a scan that also takes a candidate of equal similarity
IsBetterOrEqual(similarity, highest_similarity) ==
    FracGreaterEq(similarity, highest_similarity) /\ FracGreater(similarity, ZeroSim)

\* if similarity > highest_similarity
IsBetter(similarity, highest_similarity) == FracGreater(similarity, highest_similarity)

\* a threshold test that lets 0.2 itself through
AboveThresholdOrEqual(highest_similarity) == FracGreaterEq(highest_similarity, Threshold)

\* highest_similarity > 0.2
AboveThreshold(highest_similarity) == FracGreater(highest_similarity, Threshold)

\* the inner loop over flipkart_list_copy; pool holds positions of flipkart_list
RECURSIVE ScanPool(_, _, _, _, _)
ScanPool(amazon_keywords, flipkart_list, pool, best_match, highest_similarity) ==
    IF pool = << >> THEN
        [exc |-> "none", best_match |-> best_match, highest_similarity |-> highest_similarity]
    ELSE LET flipkart_item == flipkart_list[Head(pool)] IN
        IF ~HasKey(flipkart_item, "name") THEN
            [exc |-> "KeyError", best_match |-> None, highest_similarity |-> ZeroSim]
        ELSE LET similarity == Similarity(amazon_keywords, GetKeywords(flipkart_item.name)) IN
            IF IsBetter(similarity, highest_similarity)
            THEN ScanPool(amazon_keywords, flipkart_list, Tail(pool), Head(pool), similarity)
            ELSE ScanPool(amazon_keywords, flipkart_list, Tail(pool), best_match,
                          highest_similarity)

---------------------------------------------------------------------------
(* The verdict and the formatted difference *)

Abs(x) == IF x < 0 THEN 0 - x ELSE x

\* a verdict with the two sources exchanged
BestDealSwapped(amazon_price, flipkart_price) ==
    IF amazon_price.m < flipkart_price.m THEN "Flipkart"
    ELSE IF flipkart_price.m < amazon_price.m THEN "Amazon"
    ELSE "Both have the same price"

\* lines 46-51 of app.py, both prices finite
BestDeal(amazon_price, flipkart_price) ==
    IF amazon_price.m < flipkart_price.m THEN "Amazon"
    ELSE IF flipkart_price.m < amazon_price.m THEN "Flipkart"
    ELSE "Both have the same price"

RECURSIVE Decimal(_)
Decimal(n) == IF n < 10 THEN << DigitChar(n) >>
              ELSE Decimal(n \div 10) \o << DigitChar(n % 10) >>

Pad3(n) == << DigitChar(n \div 100), DigitChar((n \div 10) % 10), DigitChar(n % 10) >>

\* the "," option of the format specification: groups of three digits
RECURSIVE Grouped(_)
Grouped(n) == IF n < 1000 THEN Decimal(n)
              ELSE Grouped(n \div 1000) \o << "," >> \o Pad3(n % 1000)

\* the hundredths ".2f" prints for a non-negative value of d thousandths.  A value
\* half-way between two hundredths in decimal is above or below it as a binary
\* double; half_up says which.
RoundCents(d, half_up) ==
    (d \div 10) + (IF d % 10 > 5 \/ (d % 10 = 5 /\ half_up) THEN 1 ELSE 0)

\* the three characters that precede the amount in app.py
GlyphPrefix == << "U+00E2", "U+201A", "U+00B9" >>

\* f"<glyph>{abs(amazon_price - flipkart_price):,.2f}"
PriceDifference(amazon_price, flipkart_price, half_up) ==
    LET cents == RoundCents(Abs(amazon_price.m - flipkart_price.m), half_up)
    IN GlyphPrefix \o Grouped(cents \div 100)
         \o << ".", DigitChar((cents \div 10) % 10), DigitChar(cents % 10) >>

---------------------------------------------------------------------------
(* The removal pool *)

\* a removal that leaves the list as it is
ListRemoveNothing(pool, flipkart_list, best_match) == pool

\* a removal of the last equal element instead of the first
RECURSIVE ListRemoveLast(_, _, _)
ListRemoveLast(pool, flipkart_list, best_match) ==
    IF pool = << >> THEN << >>
    ELSE IF flipkart_list[pool[Len(pool)]] = flipkart_list[best_match]
         THEN SubSeq(pool, 1, Len(pool) - 1)
         ELSE Append(ListRemoveLast(SubSeq(pool, 1, Len(pool) - 1), flipkart_list, best_match),
                     pool[Len(pool)])

\* flipkart_list_copy.remove(best_match): the first element equal to best_match goes
RECURSIVE ListRemove(_, _, _)
ListRemove(pool, flipkart_list, best_match) ==
    IF pool = << >> THEN << >>
    ELSE IF flipkart_list[Head(pool)] = flipkart_list[best_match] THEN Tail(pool)
         ELSE << Head(pool) >> \o ListRemove(Tail(pool), flipkart_list, best_match)

---------------------------------------------------------------------------
(* State *)

VARIABLES
    \* one call of clean_price
    pcP, price_str, price_out,
    \* one call of compare_products: its arguments, its position and its locals
    pcM, amazon_list, flipkart_list, idx, flipkart_list_copy, comparisons,
    best_match, highest_similarity,
    \* one request to /search: its position, the two scraper calls, the futures,
    \* its locals and its response
    pcS, scraper, future, amazon_results, flipkart_results, response

priceVars == << pcP, price_str, price_out >>
matchVars == << pcM, amazon_list, flipkart_list, idx, flipkart_list_copy, comparisons,
                best_match, highest_similarity >>
searchVars == << pcS, scraper, future, amazon_results, flipkart_results, response >>
vars == << priceVars, matchVars, searchVars >>

Sites == { "amazon", "flipkart" }

SeqsUpTo(S, n) == UNION { [1..k -> S] : k \in 0..n }

---------------------------------------------------------------------------
(* compare_products, one pass of its outer loop at a time *)

\* flipkart_list_copy = list(flipkart_list): the positions of flipkart_list, in order
ListCopy(list) == [k \in 1..Len(list) |-> k]

\* One pass of "for amazon_item in amazon_list" (lines 24-61) for the item at
\* position i, from the pool and the comparisons so far.
Iterate(i, pool, comps, half_up) ==
    LET amazon_item == amazon_list[i] IN
    IF ~HasKey(amazon_item, "name") THEN
        [exc |-> "KeyError", pool |-> pool, comps |-> comps,
         best_match |-> None, highest_similarity |-> ZeroSim]
    ELSE
    LET scan == ScanPool(GetKeywords(amazon_item.name), flipkart_list, pool, None, ZeroSim) IN
    IF scan.exc # "none" THEN
        [exc |-> scan.exc, pool |-> pool, comps |-> comps,
         best_match |-> None, highest_similarity |-> ZeroSim]
    ELSE
    LET skip == [exc |-> "none", pool |-> pool, comps |-> comps,
                 best_match |-> scan.best_match,
                 highest_similarity |-> scan.highest_similarity]
    IN
    IF scan.best_match # None /\ AboveThreshold(scan.highest_similarity) THEN
        LET amazon_price == CleanPrice(Get(amazon_item, "price", NA)).val
            flipkart_price ==
                CleanPrice(Get(flipkart_list[scan.best_match], "price", NA)).val
        IN IF ~amazon_price.inf /\ ~flipkart_price.inf THEN
               [skip EXCEPT
                  !.comps = Append(comps,
                      [amazon_product |-> i,
                       flipkart_product |-> scan.best_match,
                       price_difference |->
                           PriceDifference(amazon_price, flipkart_price, half_up),
                       best_deal |-> BestDeal(amazon_price, flipkart_price)]),
                  !.pool = ListRemove(pool, flipkart_list, scan.best_match)]
           ELSE skip
    ELSE skip

\* lines 21-22
CompareEnter ==
    /\ pcM = "called"
    /\ pcM' = "loop"
    /\ comparisons' = << >>
    /\ flipkart_list_copy' = ListCopy(flipkart_list)
    /\ idx' = 0
    /\ UNCHANGED << amazon_list, flipkart_list, best_match, highest_similarity >>
    /\ UNCHANGED << priceVars, searchVars >>

\* lines 24-61, one item; an exception ends the call and its locals are gone
CompareIterate ==
    /\ pcM = "loop"
    /\ idx < Len(amazon_list)
    /\ \E half_up \in BOOLEAN :
         \E r \in { Iterate(idx + 1, flipkart_list_copy, comparisons, half_up) } :
         IF r.exc = "none" THEN
             /\ pcM' = "loop"
             /\ idx' = idx + 1
             /\ flipkart_list_copy' = r.pool
             /\ comparisons' = r.comps
             /\ best_match' = r.best_match
             /\ highest_similarity' = r.highest_similarity
         ELSE
             /\ pcM' = "raised"
             /\ idx' = idx
             /\ flipkart_list_copy' = << >>
             /\ comparisons' = << >>
             /\ best_match' = None
             /\ highest_similarity' = ZeroSim
    /\ UNCHANGED << amazon_list, flipkart_list >>
    /\ UNCHANGED << priceVars, searchVars >>

\* lines 63-64
CompareReturn ==
    /\ pcM = "loop"
    /\ idx = Len(amazon_list)
    /\ pcM' = "returned"
    /\ UNCHANGED << amazon_list, flipkart_list, idx, flipkart_list_copy, comparisons,
                    best_match, highest_similarity >>
    /\ UNCHANGED << priceVars, searchVars >>

---------------------------------------------------------------------------
(* clean_price, called on its own *)

CleanPriceCall ==
    /\ pcP = "called"
    /\ LET r == CleanPrice(price_str) IN
         /\ pcP' = IF r.exc = "none" THEN "returned" ELSE "raised"
         /\ price_out' = r.val
    /\ UNCHANGED price_str
    /\ UNCHANGED << matchVars, searchVars >>

---------------------------------------------------------------------------
(* The scrapers: seller.scrape_amazon_seller and seller.scrape_flipkart_seller *)

\* the name "N/A" a card without a name element gets
NAName == << "N", "/", "A" >>
\* the product_url "N/A" a card without a link gets
NAUrl == [base |-> "", href |-> "N/A"]

SiteBase(site) == IF site = "amazon" THEN "https://www.amazon.in"
                  ELSE "https://www.flipkart.com"
SiteSource(site) == IF site = "amazon" THEN "Amazon" ELSE "Flipkart"

\* the body of "for card in product_cards" for one card: the listing it builds.
\* A field missing from the card is an element find_with_fallbacks did not find.
CardListing(site, card) ==
    [name |-> IF HasKey(card, "name") THEN card.name ELSE NAName,
     price |-> IF HasKey(card, "price") THEN PyStr(<< Rupee >> \o card.price) ELSE NA,
     seller |-> SiteSource(site),
     image_url |-> "N/A",
     product_url |-> IF HasKey(card, "href")
                     THEN [base |-> SiteBase(site), href |-> card.href] ELSE NAUrl,
     source |-> SiteSource(site)]

\* the loop over product_cards: a listing is kept when it has a name and a link
RECURSIVE ExtractResults(_, _)
ExtractResults(site, product_cards) ==
    IF product_cards = << >> THEN << >>
    ELSE LET l == CardListing(site, Head(product_cards))
             rest == ExtractResults(site, Tail(product_cards))
         IN IF l.name # NAName /\ l.product_url # NAUrl THEN << l >> \o rest ELSE rest

\* what get_driver() can do: give a driver, give None (as the test suite's
\* replacement does), or raise
DriverOutcomes == { "driver", "None", "WebDriverException" }
\* how the try block of a scraper can end
TryOutcomes == { "ok", "TimeoutException", "NoSuchElementException",
                 "WebDriverException" }
CaughtExceptions == { "TimeoutException", "NoSuchElementException" }
\* a WebDriver command (save_screenshot, quit) succeeds or raises
CommandOutcomes == { "ok", "WebDriverException" }

\* the product cards a page can show
Cards ==
    { [name |-> << "a", " ", "b" >>, price |-> << "1", ",", "2", "0", "0" >>, href |-> "/p1"],
      [name |-> << "A", "-", "b", " ", "c" >>, price |-> << "4", "5", "0" >>, href |-> "/p1"],
      [name |-> << "a", " ", "b" >>, href |-> "/p2"],
      [price |-> << "1" >>, href |-> "/p3"],
      [name |-> << "c" >>, price |-> << "1" >>] }
Pages == SeqsUpTo(Cards, MaxCards)

NoPending == [kind |-> "none", val |-> << >>, exc |-> "none"]
Returning(v) == [kind |-> "return", val |-> v, exc |-> "none"]
Raising(e) == [kind |-> "raise", val |-> << >>, exc |-> e]

NoFuture == [state |-> "none", kind |-> "none", val |-> << >>, exc |-> "none"]
PendingFuture == [state |-> "pending", kind |-> "none", val |-> << >>, exc |-> "none"]
\* the future of a call that ended the way `pending` says
FinishedFuture(pending) ==
    [state |-> "finished",
     kind |-> IF pending.kind = "return" THEN "value" ELSE "exception",
     val |-> pending.val, exc |-> pending.exc]

IdleScraper == [pc |-> "unsubmitted", driver |-> "unset", error |-> "none",
                pending |-> NoPending]

\* driver = get_driver(); if not driver: return []
ScraperGetDriver(site) ==
    /\ scraper[site].pc = "queued"
    /\ \E out \in DriverOutcomes :
         CASE out = "driver" ->
                /\ scraper' = [scraper EXCEPT ![site].pc = "try", ![site].driver = "driver"]
                /\ UNCHANGED future
           [] out = "None" ->
                /\ scraper' = [scraper EXCEPT ![site].pc = "done", ![site].driver = "None",
                                              ![site].pending = Returning(<< >>)]
                /\ future' = [future EXCEPT ![site] = FinishedFuture(Returning(<< >>))]
           [] OTHER ->
                /\ scraper' = [scraper EXCEPT ![site].pc = "done", ![site].error = out,
                                              ![site].pending = Raising(out)]
                /\ future' = [future EXCEPT ![site] = FinishedFuture(Raising(out))]
    /\ UNCHANGED << pcS, amazon_results, flipkart_results, response >>
    /\ UNCHANGED << priceVars, matchVars >>

\* the try block: load the page, parse it, build the results
ScraperTry(site) ==
    /\ scraper[site].pc = "try"
    /\ \E out \in TryOutcomes :
         CASE out = "ok" ->
                \E product_cards \in Pages :
                    scraper' = [scraper EXCEPT
                                  ![site].pc = "finally",
                                  ![site].pending =
                                      Returning(ExtractResults(site, product_cards))]
           [] out \in CaughtExceptions ->
                scraper' = [scraper EXCEPT ![site].pc = "except", ![site].error = out]
           [] OTHER ->
                scraper' = [scraper EXCEPT ![site].pc = "finally", ![site].error = out,
                                           ![site].pending = Raising(out)]
    /\ UNCHANGED << pcS, future, amazon_results, flipkart_results, response >>
    /\ UNCHANGED << priceVars, matchVars >>

\* except (TimeoutException, NoSuchElementException): save_screenshot; return []
ScraperExcept(site) ==
    /\ scraper[site].pc = "except"
    /\ \E out \in CommandOutcomes :
         scraper' = [scraper EXCEPT
                       ![site].pc = "finally",
                       ![site].error = IF out = "ok" THEN @ ELSE out,
                       ![site].pending = IF out = "ok" THEN Returning(<< >>)
                                         ELSE Raising(out)]
    /\ UNCHANGED << pcS, future, amazon_results, flipkart_results, response >>
    /\ UNCHANGED << priceVars, matchVars >>

\* finally: driver.quit(); an exception of quit() replaces what was pending
ScraperFinally(site) ==
    /\ scraper[site].pc = "finally"
    /\ \E out \in CommandOutcomes :
         LET pending == IF out = "ok" THEN scraper[site].pending ELSE Raising(out) IN
         /\ scraper' = [scraper EXCEPT
                          ![site].pc = "done",
                          ![site].error = IF out = "ok" THEN @ ELSE out,
                          ![site].pending = pending]
         /\ future' = [future EXCEPT ![site] = FinishedFuture(pending)]
    /\ UNCHANGED << pcS, amazon_results, flipkart_results, response >>
    /\ UNCHANGED << priceVars, matchVars >>

---------------------------------------------------------------------------
(* The /search handler: app.search *)

\* a dict as the sequence of its (key, value) pairs in insertion order;
\* a store that keeps the value a key already has
RECURSIVE DictSetKeepFirst(_, _, _)
DictSetKeepFirst(d, k, v) ==
    IF d = << >> THEN << << k, v >> >>
    ELSE IF Head(d)[1] = k THEN d
         ELSE << Head(d) >> \o DictSetKeepFirst(Tail(d), k, v)

\* d[k] = v: a new key goes last, a key already there keeps its place
RECURSIVE DictSet(_, _, _)
DictSet(d, k, v) ==
    IF d = << >> THEN << << k, v >> >>
    ELSE IF Head(d)[1] = k THEN << << k, v >> >> \o Tail(d)
         ELSE << Head(d) >> \o DictSet(Tail(d), k, v)

\* {p['product_url']: p for p in results if 'product_url' in p}
RECURSIVE UrlDict(_, _)
UrlDict(results, d) ==
    IF results = << >> THEN d
    ELSE LET p == Head(results) IN
         IF HasKey(p, "product_url") THEN UrlDict(Tail(results), DictSet(d, p.product_url, p))
         ELSE UrlDict(Tail(results), d)

\* list({...}.values())
UniqueByUrl(results) == LET d == UrlDict(results, << >>) IN [k \in DOMAIN d |-> d[k][2]]

\* the comparisons as jsonify writes them: each embeds its two listings
Embedded(comps) ==
    [k \in DOMAIN comps |->
        [amazon_product |-> amazon_list[comps[k].amazon_product],
         flipkart_product |-> flipkart_list[comps[k].flipkart_product],
         price_difference |-> comps[k].price_difference,
         best_deal |-> comps[k].best_deal]]

NoResponse == [status |-> 0, amazon |-> << >>, flipkart |-> << >>, comparisons |-> << >>]
ErrorResponse(status) == [NoResponse EXCEPT !.status = status]

\* if not product_name: return jsonify({"error": ...}), 400
SearchReject ==
    /\ pcS = "request"
    /\ pcS' = "responded"
    /\ response' = ErrorResponse(400)
    /\ UNCHANGED << scraper, future, amazon_results, flipkart_results >>
    /\ UNCHANGED << priceVars, matchVars >>

\* amazon_future = executor.submit(scrape_amazon_seller, product_name)
SearchSubmitAmazon ==
    /\ pcS = "request"
    /\ pcS' = "submit_flipkart"
    /\ scraper' = [scraper EXCEPT !["amazon"].pc = "queued"]
    /\ future' = [future EXCEPT !["amazon"] = PendingFuture]
    /\ UNCHANGED << amazon_results, flipkart_results, response >>
    /\ UNCHANGED << priceVars, matchVars >>

\* flipkart_future = executor.submit(scrape_flipkart_seller, product_name)
SearchSubmitFlipkart ==
    /\ pcS = "submit_flipkart"
    /\ pcS' = "amazon_result"
    /\ scraper' = [scraper EXCEPT !["flipkart"].pc = "queued"]
    /\ future' = [future EXCEPT !["flipkart"] = PendingFuture]
    /\ UNCHANGED << amazon_results, flipkart_results, response >>
    /\ UNCHANGED << priceVars, matchVars >>

\* amazon_results = amazon_future.result(): waits, then returns or re-raises
SearchAmazonResult ==
    /\ pcS = "amazon_result"
    /\ future["amazon"].state = "finished"
    /\ IF future["amazon"].kind = "value"
       THEN /\ amazon_results' = future["amazon"].val
            /\ pcS' = "flipkart_result"
       ELSE /\ pcS' = "unwind"
            /\ UNCHANGED amazon_results
    /\ UNCHANGED << scraper, future, flipkart_results, response >>
    /\ UNCHANGED << priceVars, matchVars >>

\* flipkart_results = flipkart_future.result()
SearchFlipkartResult ==
    /\ pcS = "flipkart_result"
    /\ future["flipkart"].state = "finished"
    /\ IF future["flipkart"].kind = "value"
       THEN /\ flipkart_results' = future["flipkart"].val
            /\ pcS' = "compare"
       ELSE /\ pcS' = "unwind"
            /\ UNCHANGED flipkart_results
    /\ UNCHANGED << scraper, future, amazon_results, response >>
    /\ UNCHANGED << priceVars, matchVars >>

\* an exception leaves the with block: the executor waits for both workers, then
\* the exception leaves search and the request is answered with status 500
SearchUnwind ==
    /\ pcS = "unwind"
    /\ \A site \in Sites : scraper[site].pc = "done"
    /\ pcS' = "responded"
    /\ response' = ErrorResponse(500)
    /\ UNCHANGED << scraper, future, amazon_results, flipkart_results >>
    /\ UNCHANGED << priceVars, matchVars >>

\* the with block ends; comparison_results = compare_products(amazon_results,
\* flipkart_results) is called
SearchCompare ==
    /\ pcS = "compare"
    /\ \A site \in Sites : scraper[site].pc = "done"
    /\ pcM = "none"
    /\ pcS' = "matching"
    /\ pcM' = "called"
    /\ amazon_list' = amazon_results
    /\ flipkart_list' = flipkart_results
    /\ UNCHANGED << idx, flipkart_list_copy, comparisons, best_match, highest_similarity >>
    /\ UNCHANGED << scraper, future, amazon_results, flipkart_results, response >>
    /\ UNCHANGED priceVars

\* lines 95-106: the unique listings and the response
SearchRespond ==
    /\ pcS = "matching"
    /\ pcM \in { "returned", "raised" }
    /\ pcS' = "responded"
    /\ response' = IF pcM = "raised" THEN ErrorResponse(500)
                   ELSE [status |-> 200,
                         amazon |-> UniqueByUrl(amazon_results),
                         flipkart |-> UniqueByUrl(flipkart_results),
                         comparisons |-> Embedded(comparisons)]
    /\ UNCHANGED << scraper, future, amazon_results, flipkart_results >>
    /\ UNCHANGED << priceVars, matchVars >>

---------------------------------------------------------------------------
(* Specifications *)

PriceIdle == pcP = "none" /\ price_str = PyNone /\ price_out = Inf
MatchIdle ==
    /\ pcM = "none" /\ amazon_list = << >> /\ flipkart_list = << >>
    /\ idx = 0 /\ flipkart_list_copy = << >> /\ comparisons = << >>
    /\ best_match = None /\ highest_similarity = ZeroSim
SearchIdle ==
    /\ pcS = "none"
    /\ scraper = [site \in Sites |-> IdleScraper]
    /\ future = [site \in Sites |-> NoFuture]
    /\ amazon_results = << >> /\ flipkart_results = << >>
    /\ response = NoResponse

\* the characters of the price texts clean_price is given
PriceAlphabet == { Rupee, ",", "N", "/", "A", " ", "1", "5", ".", "-" }
PriceInputs == { PyNone, PyInt } \cup { PyStr(s) : s \in SeqsUpTo(PriceAlphabet, MaxPriceLen) }

InitPrice ==
    /\ pcP = "called" /\ price_str \in PriceInputs /\ price_out = Inf
    /\ MatchIdle /\ SearchIdle
NextPrice == CleanPriceCall
SpecPrice == InitPrice /\ [][NextPrice]_vars

\* the listings compare_products is given as its first argument
ListingsA ==
    { [name |-> << "a", " ", "b", " ", "c" >>, price |-> PyStr(<< Rupee, "1", ",", "2", "0", "0" >>)],
      [name |-> << "A", "-", "b" >>, price |-> NA],
      [name |-> << "a", " ", "f", " ", "g" >>, price |-> PyStr(<< Rupee, "1", ".", "0", "0", "1" >>)],
      [name |-> << "!" >>],
      [price |-> PyStr(<< Rupee, "1", ",", "2", "0", "0" >>)] }
\* the listings compare_products is given as its second argument
ListingsB ==
    { [name |-> << "a", " ", "b", " ", "c" >>, price |-> PyStr(<< Rupee, "1", ",", "2", "0", "0" >>)],
      [name |-> << "B", " ", "a" >>, price |-> PyStr(<< "1", ".", "0", "0", "2" >>)],
      [name |-> << "b", ",", "a" >>],
      [name |-> << "a", " ", "d", " ", "e" >>, price |-> PyStr(<< " ", Rupee, " ", "4", "5", "0", " " >>)],
      [name |-> << "?" >>, price |-> PyNone],
      [price |-> PyStr(<< "x" >>)] }

InitMatch ==
    /\ pcM = "called"
    /\ amazon_list \in SeqsUpTo(ListingsA, MaxA)
    /\ flipkart_list \in SeqsUpTo(ListingsB, MaxB)
    /\ idx = 0 /\ flipkart_list_copy = << >> /\ comparisons = << >>
    /\ best_match = None /\ highest_similarity = ZeroSim
    /\ PriceIdle /\ SearchIdle
NextMatch == CompareEnter \/ CompareIterate \/ CompareReturn
SpecMatch == InitMatch /\ [][NextMatch]_vars

InitSearch ==
    /\ pcS = "request"
    /\ scraper = [site \in Sites |-> IdleScraper]
    /\ future = [site \in Sites |-> NoFuture]
    /\ amazon_results = << >> /\ flipkart_results = << >>
    /\ response = NoResponse
    /\ PriceIdle /\ MatchIdle
NextSearch ==
    \/ SearchReject \/ SearchSubmitAmazon \/ SearchSubmitFlipkart
    \/ SearchAmazonResult \/ SearchFlipkartResult \/ SearchUnwind
    \/ SearchCompare \/ SearchRespond
    \/ \E site \in Sites :
         \/ ScraperGetDriver(site) \/ ScraperTry(site)
         \/ ScraperExcept(site) \/ ScraperFinally(site)
    \/ CompareEnter \/ CompareIterate \/ CompareReturn
SpecSearch == InitSearch /\ [][NextSearch]_vars

---------------------------------------------------------------------------
(* Vocabulary of the properties *)

Last(s) == s[Len(s)]
Positions(pool) == { pool[k] : k \in DOMAIN pool }
WithoutPosition(pool, j) == SelectSeq(pool, LAMBDA q : q # j)

Named(l) == HasKey(l, "name")
SomeListingUnnamed ==
    \/ \E i \in DOMAIN amazon_list : ~Named(amazon_list[i])
    \/ \E j \in DOMAIN flipkart_list : ~Named(flipkart_list[j])

\* the Jaccard similarity of the A listing at position i and the B listing at j
SimOf(i, j) ==
    Similarity(GetKeywords(amazon_list[i].name), GetKeywords(flipkart_list[j].name))
KeywordUnion(i, j) ==
    GetKeywords(amazon_list[i].name) \cup GetKeywords(flipkart_list[j].name)

\* the greatest similarity of A's listing i to the listings of a pool (0 for none)
PoolMax(i, pool) ==
    LET sims == { SimOf(i, j) : j \in Positions(pool) } \cup { ZeroSim }
    IN CHOOSE x \in sims : \A y \in sims : FracGreaterEq(x, y)

\* the earliest listing of the pool that attains a positive greatest similarity
EarliestBest(i, pool) ==
    LET top == PoolMax(i, pool) IN
    IF top = ZeroSim THEN None
    ELSE pool[CHOOSE k \in DOMAIN pool :
                 /\ SimOf(i, pool[k]) = top
                 /\ \A h \in 1..(k - 1) : SimOf(i, pool[h]) # top]

NormalizedPrice(l) == CleanPrice(Get(l, "price", NA)).val
FinitePrice(l) == ~NormalizedPrice(l).inf

\* one pass of the outer loop that ran to its end
IteratedOne == pcM = "loop" /\ pcM' = "loop" /\ idx' = idx + 1
EmittedOne == Len(comparisons') = Len(comparisons) + 1

\* the amount a formatted price_difference shows, in thousandths
Magnitude(text) ==
    PyFloat(SelectSeq(SubSeq(text, Len(GlyphPrefix) + 1, Len(text)),
                      LAMBDA c : c # ",")).val.m

PriceA(c) == NormalizedPrice(amazon_list[c.amazon_product]).m
PriceB(c) == NormalizedPrice(flipkart_list[c.flipkart_product]).m

WinnerByPrice(c) ==
    /\ c.best_deal = "Amazon" <=> PriceA(c) < PriceB(c)
    /\ c.best_deal = "Flipkart" <=> PriceA(c) > PriceB(c)
    /\ c.best_deal = "Both have the same price" <=> PriceA(c) = PriceB(c)

\* a price text with the glyph, the commas and the letters taken out and the
\* blanks around it dropped
Stripped(text) ==
    LET kept == SelectSeq(text, LAMBDA c : c \notin { Rupee, "," } /\ c \notin AsciiLetters)
        inked == { k \in DOMAIN kept : kept[k] # " " }
    IN IF inked = {} THEN << >>
       ELSE SubSeq(kept, CHOOSE k \in inked : \A h \in inked : k <= h,
                         CHOOSE k \in inked : \A h \in inked : k >= h)

\* digits, single underscores allowed between them
IsDigitRun(t) ==
    /\ t # << >>
    /\ \A k \in DOMAIN t : t[k] \in Digits \cup { "_" }
    /\ t[1] \in Digits /\ t[Len(t)] \in Digits
    /\ \A k \in 1..(Len(t) - 1) : ~(t[k] = "_" /\ t[k + 1] = "_")

\* the decimal numbers float() reads: [sign] digits [. [digits]] or [sign] . digits
IsDecimal(t) ==
    LET u == IF t # << >> /\ t[1] \in { "+", "-" } THEN Tail(t) ELSE t IN
    \/ IsDigitRun(u)
    \/ \E k \in DOMAIN u :
         /\ u[k] = "."
         /\ LET l == SubSeq(u, 1, k - 1)
                r == SubSeq(u, k + 1, Len(u))
            IN /\ l = << >> \/ IsDigitRun(l)
               /\ r = << >> \/ IsDigitRun(r)
               /\ ~(l = << >> /\ r = << >>)

Failed(site) == scraper[site].driver = "None" \/ scraper[site].error # "none"

\* the last listing of a collection that has the product_url u
LastWithUrl(results, u) ==
    results[CHOOSE k \in DOMAIN results :
               /\ results[k].product_url = u
               /\ \A h \in DOMAIN results : results[h].product_url = u => h <= k]

UniqueLastWins(out, retrieved) ==
    /\ \A i, j \in DOMAIN out : i # j => out[i].product_url # out[j].product_url
    /\ \A i \in DOMAIN out : \E k \in DOMAIN retrieved : out[i] = retrieved[k]
    /\ \A k \in DOMAIN retrieved :
         \E i \in DOMAIN out :
            /\ out[i].product_url = retrieved[k].product_url
            /\ out[i] = LastWithUrl(retrieved, retrieved[k].product_url)

---------------------------------------------------------------------------
(* Properties *)

\* C1: no two Comparisons of one call of compare_products refer to the same
\* position of flipkart_list: a B listing paired with an A listing is paired with
\* no later A listing, whatever its similarity.
C1_Injective ==
    \A h, k \in DOMAIN comparisons :
        h # k => comparisons[h].flipkart_product # comparisons[k].flipkart_product

\* C1 witness: a B listing is paired, and a later A listing that has been
\* processed is strictly more similar to it than the one it is paired with.
C1_Witness ==
    /\ pcM = "returned"
    /\ \E k \in DOMAIN comparisons : \E i \in DOMAIN amazon_list :
         /\ i > comparisons[k].amazon_product
         /\ Named(amazon_list[i])
         /\ FracGreater(SimOf(i, comparisons[k].flipkart_product),
                        SimOf(comparisons[k].amazon_product, comparisons[k].flipkart_product))

C3_AsStated ==
    \A k \in DOMAIN comparisons :
        LET c == comparisons[k]
            shown == Magnitude(c.price_difference)
        IN /\ WinnerByPrice(c)
           /\ Abs(shown - Abs(PriceA(c) - PriceB(c))) <= 5
           /\ shown >= 0
           /\ shown = 0 <=> PriceA(c) = PriceB(c)

\* C3 amended: the winner follows the order of the two prices; the amount of
\* price_difference is |pa - pb| rounded to hundredths, so it is non-negative,
\* within half a hundredth of |pa - pb|, and 0 for a tie.
C3_Rounded ==
    \A k \in DOMAIN comparisons :
        LET c == comparisons[k]
            shown == Magnitude(c.price_difference)
        IN /\ WinnerByPrice(c)
           /\ shown >= 0
           /\ shown % 10 = 0
           /\ Abs(shown - Abs(PriceA(c) - PriceB(c))) <= 5
           /\ PriceA(c) = PriceB(c) => shown = 0

\* C3 witness: a Comparison whose prices differ, with a winner, and whose
\* price_difference shows 0.00.
C3_Witness ==
    \E k \in DOMAIN comparisons :
        /\ PriceA(comparisons[k]) # PriceB(comparisons[k])
        /\ comparisons[k].best_deal = "Amazon"
        /\ Magnitude(comparisons[k].price_difference) = 0

\* C4 as stated: a scraper call that failed in any way ends with the empty list
\* as its result, and no exception reaches search.
C4_AsStated ==
    /\ \A site \in Sites :
         (scraper[site].pc = "done" /\ Failed(site)) =>
             /\ future[site].kind = "value"
             /\ future[site].val = << >>
    /\ pcS # "unwind"

\* C5 as stated: a call of compare_products with a listing without a name in
\* either list ends with an error and returns no Comparisons.
C5_AsStated ==
    (pcM \in { "returned", "raised" } /\ SomeListingUnnamed) =>
        (pcM = "raised" /\ comparisons = << >>)

\* C6: clean_price never raises; it returns infinity when the input is not a
\* string, is "N/A", or does not read as a decimal number once stripped; it is
\* finite only for a string that does.
C6_NeverRaises ==
    /\ pcP # "raised"
    /\ pcP = "returned" =>
         /\ (~IsStr(price_str) \/ price_str = NA \/ ~IsDecimal(Stripped(price_str.v)))
                => price_out = Inf
         /\ ~price_out.inf => (IsStr(price_str) /\ IsDecimal(Stripped(price_str.v)))

\* C6 witness: clean_price has returned infinity for an input that is no string.
C6_Witness == pcP = "returned" /\ ~IsStr(price_str) /\ price_out = Inf

\* C7: in a response of search each of the two listing collections has at most
\* one listing per product_url, the one kept for a product_url is its last
\* occurrence in the retrieved collection, and every retrieved listing has its
\* product_url in the output.
C7_UniqueLastWins ==
    response.status = 200 =>
        /\ UniqueLastWins(response.amazon, amazon_results)
        /\ UniqueLastWins(response.flipkart, flipkart_results)

\* C7 witness: a response for which two different retrieved Amazon listings
\* shared a product_url.
C7_Witness ==
    /\ response.status = 200
    /\ \E h, k \in DOMAIN amazon_results :
         /\ h < k
         /\ amazon_results[h].product_url = amazon_results[k].product_url
         /\ amazon_results[h] # amazon_results[k]

\* C8: the candidate a pass selects is the earliest listing of the pool whose
\* similarity to the A listing is the greatest over the pool, highest_similarity
\* is that greatest similarity, and the similarity of two listings without
\* keywords is 0.
C8_EarliestBest ==
    [][IteratedOne =>
        LET i == idx + 1 IN
        /\ highest_similarity' = PoolMax(i, flipkart_list_copy)
        /\ best_match' = EarliestBest(i, flipkart_list_copy)
        /\ best_match' # None =>
             /\ best_match' \in Positions(flipkart_list_copy)
             /\ \A j \in Positions(flipkart_list_copy) :
                    FracGreaterEq(SimOf(i, best_match'), SimOf(i, j))
        /\ \A j \in Positions(flipkart_list_copy) :
              KeywordUnion(i, j) = {} => SimOf(i, j) = ZeroSim
    ]_vars

\* C8 witness: after a pass the candidate selected is followed in the pool by a
\* listing of the same similarity.
C8_Witness ==
    /\ pcM = "loop" /\ idx >= 1 /\ best_match # None
    /\ \E j \in Positions(flipkart_list_copy) :
         j > best_match /\ SimOf(idx, j) = highest_similarity

\* C9 as stated: once the two retrievals have been started, compare_products is
\* invoked exactly once, after both have completed, with the Amazon result as
\* its first argument and the Flipkart result as its second.
C9_AsStated ==
    /\ pcM # "none" =>
         /\ \A site \in Sites : future[site].state = "finished"
         /\ amazon_list = amazon_results /\ flipkart_list = flipkart_results
    /\ (pcS = "responded" /\ scraper["amazon"].pc # "unsubmitted") => pcM = "returned"

\* The part of C9 that holds of every run: compare_products is not invoked
\* before both futures have finished, and its arguments are the two results.
JoinBeforeCompare ==
    pcM # "none" =>
        /\ \A site \in Sites : future[site].state = "finished" /\ future[site].kind = "value"
        /\ amazon_list = future["amazon"].val
        /\ flipkart_list = future["flipkart"].val

\* C10: a pass of the outer loop that emits a Comparison takes exactly the
\* matched listing out of the pool, a pass that emits none leaves the pool as it
\* was, and flipkart_list itself is never changed.
C10_PoolFrame ==
    [][/\ flipkart_list' = flipkart_list \/ pcM = "none"
       /\ IteratedOne =>
            IF EmittedOne
            THEN /\ Last(comparisons').flipkart_product \in Positions(flipkart_list_copy)
                 /\ flipkart_list_copy' =
                      WithoutPosition(flipkart_list_copy, Last(comparisons').flipkart_product)
            ELSE flipkart_list_copy' = flipkart_list_copy
    ]_vars

\* C10 witness: the first A listing was passed over, and the listing that was
\* its best candidate has gone to the second A listing.
C10_Witness ==
    /\ pcM = "returned" /\ Len(comparisons) = 1
    /\ comparisons[1].amazon_product = 2
    /\ Named(amazon_list[1])
    /\ comparisons[1].flipkart_product = EarliestBest(1, ListCopy(flipkart_list))
    /\ FracGreater(SimOf(1, comparisons[1].flipkart_product), Threshold)

=============================================================================
